---- MODULE Spec2Model ----
(***************************************************************************)
(* Anagram Hunt: the word generator (utils/wordFinder.ts) and the session  *)
(* engine's submit handler (Game.tsx).                                      *)
(*                                                                          *)
(* Characters are numbers: 'a'..'z' are 1..26, the German letters          *)
(* 'ae','oe','ue','sz' are 27..30, and the upper-case form of character c  *)
(* is c + UpperOffset.  A string is a sequence of characters.              *)
(***************************************************************************)
EXTENDS Integers, Sequences, FiniteSets, TLC

\* ------------------------------------------------------------------ bounds
MaxSeedLen == 4
MaxWordLen == 4
MaxDict == 2
MaxLongDict == 3
MaxTicks == 1
MaxStaleKeys == 1
MaxStaleFound == 0
MaxLevel == 3
MaxNextFound == 1
MaxStoredScore == 0

\* --------------------------------------------------------------- characters
UpperOffset == 100
a == 1
d == 4
e == 5

Range(s) == {s[i] : i \in DOMAIN s}

\* String.prototype.toLowerCase on one character
toLowerCaseChar(c) == IF c > UpperOffset THEN c - UpperOffset ELSE c

\* String.prototype.toLowerCase
toLowerCase(str) == [i \in DOMAIN str |-> toLowerCaseChar(str[i])]

\* String.prototype.toUpperCase on one character; the sharp s (30) has no
\* single upper-case character and becomes "SS"
toUpperCaseChar(c) ==
  IF c > UpperOffset THEN <<c>>
  ELSE IF c = 30 THEN <<19 + UpperOffset, 19 + UpperOffset>>
  ELSE <<c + UpperOffset>>

\* ------------------------------------------------------------- wordFinder.ts
Languages == {"en", "de"}

letterValues ==
  [en |-> <<1, 3, 3, 2, 1, 4, 2, 4, 1, 8, 5, 1, 3, 1, 1, 3, 10, 1, 1, 1, 1,
            4, 4, 8, 4, 10>>,
   de |-> <<1, 3, 4, 1, 1, 4, 2, 2, 1, 6, 4, 2, 3, 1, 2, 4, 10, 1, 1, 1, 1,
            6, 3, 8, 10, 3, 6, 8, 6, 3>>]

\* letterValues[lang][char] || 0
letterValue(lang, char) ==
  IF char \in DOMAIN letterValues[lang] THEN letterValues[lang][char] ELSE 0

RECURSIVE SumValues(_, _, _)
SumValues(lang, str, i) ==
  IF i > Len(str) THEN 0
  ELSE letterValue(lang, str[i]) + SumValues(lang, str, i + 1)

\* a faulty variant: the English letter values for both languages
calculateUncommonness_english(word, lang) ==
  SumValues("en", toLowerCase(word), 1)

calculateUncommonness(word, lang) == SumValues(lang, toLowerCase(word), 1)

\* the object built by getCharMap: its keys are the characters of the
\* lower-cased word, its values their numbers of occurrences
getCharMap(word) ==
  LET lower == toLowerCase(word)
  IN [char \in Range(lower) |->
        Cardinality({i \in DOMAIN lower : lower[i] = char})]

\* a faulty variant: the word needs only letters the seed word has, however often
canBeFormed_presenceOnly(wordCharMap, seedCharMap) ==
  \A char \in DOMAIN wordCharMap : char \in DOMAIN seedCharMap

\* the inner loop of findAndScoreWords over the keys of wordCharMap
canBeFormed(wordCharMap, seedCharMap) ==
  \A char \in DOMAIN wordCharMap :
     ~ (char \notin DOMAIN seedCharMap
        \/ wordCharMap[char] > seedCharMap[char])

\* the test that makes the dictionary loop skip a word
skipped(word, seed) ==
  \/ Len(word) < 3
  \/ Len(word) > Len(seed)
  \/ word = toLowerCase(seed)

\* the dictionary loop: foundWords after the words i..Len(dictionary)
RECURSIVE scanDictionary(_, _, _)
scanDictionary(dict, seed, i) ==
  IF i > Len(dict) THEN <<>>
  ELSE LET word == dict[i]
           rest == scanDictionary(dict, seed, i + 1)
       IN IF skipped(word, seed) THEN rest
          ELSE IF canBeFormed(getCharMap(word), getCharMap(seed))
               THEN <<word>> \o rest
               ELSE rest

\* Math.min(...xs), Math.max(...xs) of a non-empty list of numbers
MathMin(xs) == CHOOSE m \in Range(xs) : \A x \in Range(xs) : m <= x
MathMax(xs) == CHOOSE m \in Range(xs) : \A x \in Range(xs) : m >= x

\* Math.round(num / den) for num >= 0, den > 0: the nearest integer, a tie
\* going up
MathRound(num, den) == (2 * num + den) \div (2 * den)

\* one element of wordsWithScores
withScores(word, lang) ==
  [word |-> word,
   uncommonness |-> calculateUncommonness(word, lang),
   length |-> Len(word)]

\* a faulty variant: 0 instead of 1 when the range is empty
normalized_zero(value, minValue, range) ==
  IF range > 0 THEN <<value - minValue, range>> ELSE <<0, 1>>

\* range > 0 ? (value - min) / range : 1, kept as the fraction <<num, den>>
normalized(value, minValue, range) ==
  IF range > 0 THEN <<value - minValue, range>> ELSE <<1, 1>>

\* a faulty variant: the score scaled to 0..1000 without the base of 10
combinedScore_noBase(cnNum, cnDen) == MathRound(cnNum * 1000, cnDen)

\* Math.round(10 + combinedNormalizedScore * 990) for
\* combinedNormalizedScore = cnNum / cnDen
combinedScore(cnNum, cnDen) == MathRound(10 * cnDen + cnNum * 990, cnDen)

\* Math.round(1 + normalizedUncommonness * 4) for
\* normalizedUncommonness = nuNum / nuDen
estimatedUncommonness(nuNum, nuDen) == MathRound(nuDen + nuNum * 4, nuDen)

\* the callback of wordsWithScores.map that builds one WordResult
finalResult(item, lang, minLength, lengthRange, minUncommonness, uncommonnessRange) ==
  LET normalizedLength == normalized(item.length, minLength, lengthRange)
      normalizedUncommonness ==
        normalized(item.uncommonness, minUncommonness, uncommonnessRange)
      \* combinedNormalizedScore = (normalizedLength +
      \* normalizedUncommonness) / 2 = cnNum / cnDen
      cnNum == normalizedLength[1] * normalizedUncommonness[2]
                 + normalizedUncommonness[1] * normalizedLength[2]
      cnDen == 2 * normalizedLength[2] * normalizedUncommonness[2]
      finalWord == IF lang = "en"
                   THEN toUpperCaseChar(item.word[1]) \o Tail(item.word)
                   ELSE item.word
  IN [word |-> finalWord,
      estimated_uncommonness |->
        estimatedUncommonness(normalizedUncommonness[1],
                              normalizedUncommonness[2]),
      combined_score |-> combinedScore(cnNum, cnDen)]

\* a faulty variant: an unstable sort: an entry is put before the entries of equal
\* score
RECURSIVE insertSorted_unstable(_, _)
insertSorted_unstable(sorted, item) ==
  IF sorted = <<>> THEN <<item>>
  ELSE LET last == sorted[Len(sorted)]
       IN IF last.combined_score - item.combined_score <= 0
          THEN Append(insertSorted_unstable(
                        SubSeq(sorted, 1, Len(sorted) - 1), item), last)
          ELSE Append(sorted, item)

\* Array.prototype.sort with the comparator b.combined_score -
\* a.combined_score: a stable sort, here by insertion
RECURSIVE insertSorted(_, _)
insertSorted(sorted, item) ==
  IF sorted = <<>> THEN <<item>>
  ELSE LET last == sorted[Len(sorted)]
       IN IF last.combined_score - item.combined_score < 0
          THEN Append(insertSorted(SubSeq(sorted, 1, Len(sorted) - 1), item),
                      last)
          ELSE Append(sorted, item)

RECURSIVE sortResults(_, _)
sortResults(finalResults, n) ==
  IF n = 0 THEN <<>>
  ELSE insertSorted(sortResults(finalResults, n - 1), finalResults[n])

findAndScoreWords(seed, lang, dict) ==
  IF seed = <<>> THEN <<>>
  ELSE LET foundWords0 == scanDictionary(dict, seed, 1)
       IN IF Len(foundWords0) = 0 THEN <<>>
          ELSE LET wordsWithScores ==
                     [i \in DOMAIN foundWords0 |->
                        withScores(foundWords0[i], lang)]
                   lengths == [i \in DOMAIN wordsWithScores |->
                                 wordsWithScores[i].length]
                   uncommonnesses == [i \in DOMAIN wordsWithScores |->
                                        wordsWithScores[i].uncommonness]
                   minLength == MathMin(lengths)
                   maxLength == MathMax(lengths)
                   minUncommonness == MathMin(uncommonnesses)
                   maxUncommonness == MathMax(uncommonnesses)
                   lengthRange == maxLength - minLength
                   uncommonnessRange == maxUncommonness - minUncommonness
                   finalResults ==
                     [i \in DOMAIN wordsWithScores |->
                        finalResult(wordsWithScores[i], lang, minLength,
                                    lengthRange, minUncommonness,
                                    uncommonnessRange)]
               IN sortResults(finalResults, Len(finalResults))

\* -------------------------------------------------------------------- Game.tsx
TIME_LIMIT == 300

\* the level files of the level: the generator's lists for two seed words,
\* "aaad" with three words of 3 letters and one of 4, and "aaaad" with a
\* word of 3, of 4 and of 5 letters
levelFile(seed, dict) ==
  [seed_word |-> seed, words_list |-> findAndScoreWords(seed, "en", dict)]

LevelFiles ==
  [aaad |-> levelFile(<<a, a, a, d>>,
                      << <<a, a, a>>, <<a, a, d>>, <<a, d, a>>,
                         <<d, a, a, a>> >>),
   aaaad |-> levelFile(<<a, a, a, a, d>>,
                       << <<a, a, d>>, <<a, a, a, d>>,
                          <<d, a, a, a, a>> >>),
   dad |-> levelFile(<<d, a, d>>, << <<a, d, d>> >>),
   ada |-> levelFile(<<a, d, a>>, << <<a, a, d>> >>),
   dda |-> levelFile(<<d, d, a>>, << <<d, a, d>> >>)]

\* the level files there are
SeedWordFiles == DOMAIN LevelFiles

\* the levels of _level-mapping.json: the first and the last level with
\* two candidate files, the levels between with one; the last level has
\* the long word lists
Levels == 1..MaxLevel

levelMapping ==
  [level \in Levels |->
     [seed_words |-> IF level = MaxLevel THEN <<"aaad", "aaaad">>
                     ELSE IF level = 1 THEN <<"dad", "ada">>
                     ELSE <<"dda">>]]

\* -------------------------------------------------------------- storage.ts
\* the stored GameProgress. loadGameProgress() returns null while nothing
\* is stored: the record with stored = FALSE. The time stamps completedAt
\* and lastPlayed and the language are left out.
NoProgress ==
  [stored |-> FALSE, currentLevel |-> 0, completedLevels |-> <<>>,
   totalScore |-> 0]

\* a faulty variant: the latest score is stored, whether it is better or not
updateLevelProgress_latestWins(existing, level, newScore, wordsFound, totalWords) ==
  LET hasLevel == level \in DOMAIN existing.completedLevels
      existingScore ==
        IF hasLevel THEN existing.completedLevels[level].score ELSE 0
      levelData ==
        [score |-> newScore, wordsFound |-> wordsFound,
         totalWords |-> totalWords]
  IN [stored |-> TRUE,
      currentLevel |->
        IF existing.currentLevel # 0 THEN existing.currentLevel ELSE 1,
      completedLevels |->
        [l \in DOMAIN existing.completedLevels \cup {level} |->
           IF l = level THEN levelData ELSE existing.completedLevels[l]],
      totalScore |-> existing.totalScore + (newScore - existingScore)]

\* a faulty variant: a better score is added to the total in full, the
\* score it replaces is not taken off
updateLevelProgress_addsScore(existing, level, newScore, wordsFound, totalWords) ==
  LET hasLevel == level \in DOMAIN existing.completedLevels
      existingScore ==
        IF hasLevel THEN existing.completedLevels[level].score ELSE 0
      shouldUpdateScore == newScore > existingScore
      totalScoreAdjustment == IF shouldUpdateScore THEN newScore ELSE 0
      levelData ==
        [score |-> IF shouldUpdateScore THEN newScore ELSE existingScore,
         wordsFound |->
           IF shouldUpdateScore THEN wordsFound
           ELSE IF hasLevel THEN existing.completedLevels[level].wordsFound
           ELSE 0,
         totalWords |->
           IF shouldUpdateScore THEN totalWords
           ELSE IF hasLevel THEN existing.completedLevels[level].totalWords
           ELSE 0]
  IN [stored |-> TRUE,
      currentLevel |->
        IF existing.currentLevel # 0 THEN existing.currentLevel ELSE 1,
      completedLevels |->
        [l \in DOMAIN existing.completedLevels \cup {level} |->
           IF l = level THEN levelData ELSE existing.completedLevels[l]],
      totalScore |-> existing.totalScore + totalScoreAdjustment]

\* updateLevelProgress(level, score, wordsFound, totalWords, language) on
\* the stored progress existing: the progress it saves and returns
updateLevelProgress(existing, level, newScore, wordsFound, totalWords) ==
  LET hasLevel == level \in DOMAIN existing.completedLevels
      existingScore ==
        IF hasLevel THEN existing.completedLevels[level].score ELSE 0
      shouldUpdateScore == newScore > existingScore
      totalScoreAdjustment ==
        IF shouldUpdateScore THEN newScore - existingScore ELSE 0
      levelData ==
        [score |-> IF shouldUpdateScore THEN newScore ELSE existingScore,
         wordsFound |->
           IF shouldUpdateScore THEN wordsFound
           ELSE IF hasLevel THEN existing.completedLevels[level].wordsFound
           ELSE 0,
         totalWords |->
           IF shouldUpdateScore THEN totalWords
           ELSE IF hasLevel THEN existing.completedLevels[level].totalWords
           ELSE 0]
  IN [stored |-> TRUE,
      currentLevel |->
        IF existing.currentLevel # 0 THEN existing.currentLevel ELSE 1,
      completedLevels |->
        [l \in DOMAIN existing.completedLevels \cup {level} |->
           IF l = level THEN levelData ELSE existing.completedLevels[l]],
      totalScore |-> existing.totalScore + totalScoreAdjustment]

STAR_THRESHOLDS ==
  [ZERO_STARS |-> 0, ONE_STAR |-> 1000, TWO_STARS |-> 10000,
   THREE_STARS |-> 20000]

\* a faulty variant: a score on a threshold does not reach its star yet
getStarRating_above(starScore) ==
  IF starScore > STAR_THRESHOLDS.THREE_STARS THEN 3
  ELSE IF starScore > STAR_THRESHOLDS.TWO_STARS THEN 2
  ELSE IF starScore > STAR_THRESHOLDS.ONE_STAR THEN 1
  ELSE 0

getStarRating(starScore) ==
  IF starScore >= STAR_THRESHOLDS.THREE_STARS THEN 3
  ELSE IF starScore >= STAR_THRESHOLDS.TWO_STARS THEN 2
  ELSE IF starScore >= STAR_THRESHOLDS.ONE_STAR THEN 1
  ELSE 0

\* new Map(words_list.map(w => [w.word.toLowerCase(), w])): of two entries
\* with one key the later one stays
newWordMap(words_list) ==
  [key \in {toLowerCase(words_list[i].word) : i \in DOMAIN words_list} |->
     LET last == CHOOSE i \in DOMAIN words_list :
                   /\ toLowerCase(words_list[i].word) = key
                   /\ \A j \in DOMAIN words_list :
                        toLowerCase(words_list[j].word) = key => j <= i
     IN words_list[last]]

\* map.get(key) || 0
getOrZero(map, key) == IF key \in DOMAIN map THEN map[key] ELSE 0

NoBonus == [type |-> "null", amount |-> 0, count |-> 0]

\* a faulty variant: the straight bonus paid at the rate of the streak bonus
bonusFor_straightFifty(newWordLength, lastLength, streak, straight) ==
  IF lastLength > 0 /\ newWordLength = lastLength
  THEN [streak |-> streak + 1, straight |-> 1,
        bonus |-> IF streak + 1 >= 2
                  THEN [type |-> "streak", amount |-> (streak + 1 - 1) * 50,
                        count |-> streak + 1]
                  ELSE NoBonus]
  ELSE IF lastLength > 0 /\ newWordLength = lastLength + 1
  THEN [streak |-> 1, straight |-> straight + 1,
        bonus |-> IF straight + 1 >= 2
                  THEN [type |-> "straight",
                        amount |-> (straight + 1 - 1) * 50,
                        count |-> straight + 1]
                  ELSE NoBonus]
  ELSE [streak |-> 1, straight |-> 1, bonus |-> NoBonus]

\* a faulty variant: a word that continues nothing resets the counters to
\* 0, as a miss does
bonusFor_resetZero(newWordLength, lastLength, streak, straight) ==
  IF lastLength > 0 /\ newWordLength = lastLength
  THEN [streak |-> streak + 1, straight |-> 1,
        bonus |-> IF streak + 1 >= 2
                  THEN [type |-> "streak", amount |-> (streak + 1 - 1) * 50,
                        count |-> streak + 1]
                  ELSE NoBonus]
  ELSE IF lastLength > 0 /\ newWordLength = lastLength + 1
  THEN [streak |-> 1, straight |-> straight + 1,
        bonus |-> IF straight + 1 >= 2
                  THEN [type |-> "straight",
                        amount |-> (straight + 1 - 1) * 100,
                        count |-> straight + 1]
                  ELSE NoBonus]
  ELSE [streak |-> 0, straight |-> 0, bonus |-> NoBonus]

\* a faulty variant: the bonus of the streak that a straight ends is added
\* to the straight bonus
bonusFor_bothBonuses(newWordLength, lastLength, streak, straight) ==
  IF lastLength > 0 /\ newWordLength = lastLength
  THEN [streak |-> streak + 1, straight |-> 1,
        bonus |-> IF streak + 1 >= 2
                  THEN [type |-> "streak", amount |-> (streak + 1 - 1) * 50,
                        count |-> streak + 1]
                  ELSE NoBonus]
  ELSE IF lastLength > 0 /\ newWordLength = lastLength + 1
  THEN [streak |-> 1, straight |-> straight + 1,
        bonus |-> IF straight + 1 >= 2
                  THEN [type |-> "straight",
                        amount |-> (straight + 1 - 1) * 100
                                     + (streak - 1) * 50,
                        count |-> straight + 1]
                  ELSE NoBonus]
  ELSE [streak |-> 1, straight |-> 1, bonus |-> NoBonus]

\* the streak bonus counted per word of the streak, the first one included
bonusFor_perWord(newWordLength, lastLength, streak, straight) ==
  IF lastLength > 0 /\ newWordLength = lastLength
  THEN [streak |-> streak + 1, straight |-> 1,
        bonus |-> IF streak + 1 >= 2
                  THEN [type |-> "streak", amount |-> (streak + 1) * 50,
                        count |-> streak + 1]
                  ELSE NoBonus]
  ELSE IF lastLength > 0 /\ newWordLength = lastLength + 1
  THEN [streak |-> 1, straight |-> straight + 1,
        bonus |-> IF straight + 1 >= 2
                  THEN [type |-> "straight",
                        amount |-> (straight + 1 - 1) * 100,
                        count |-> straight + 1]
                  ELSE NoBonus]
  ELSE [streak |-> 1, straight |-> 1, bonus |-> NoBonus]

\* a faulty variant: a word that continues the streak leaves the straight
\* count as it is
bonusFor_streakKeepsStraight(newWordLength, lastLength, streak, straight) ==
  IF lastLength > 0 /\ newWordLength = lastLength
  THEN [streak |-> streak + 1, straight |-> straight,
        bonus |-> IF streak + 1 >= 2
                  THEN [type |-> "streak", amount |-> (streak + 1 - 1) * 50,
                        count |-> streak + 1]
                  ELSE NoBonus]
  ELSE IF lastLength > 0 /\ newWordLength = lastLength + 1
  THEN [streak |-> 1, straight |-> straight + 1,
        bonus |-> IF straight + 1 >= 2
                  THEN [type |-> "straight",
                        amount |-> (straight + 1 - 1) * 100,
                        count |-> straight + 1]
                  ELSE NoBonus]
  ELSE [streak |-> 1, straight |-> 1, bonus |-> NoBonus]

\* the streak and straight arithmetic of handleSubmit for a word of
\* newWordLength letters: the new counters and the bonus record
bonusFor(newWordLength, lastLength, streak, straight) ==
  IF lastLength > 0 /\ newWordLength = lastLength
  THEN [streak |-> streak + 1, straight |-> 1,
        bonus |-> IF streak + 1 >= 2
                  THEN [type |-> "streak", amount |-> (streak + 1 - 1) * 50,
                        count |-> streak + 1]
                  ELSE NoBonus]
  ELSE IF lastLength > 0 /\ newWordLength = lastLength + 1
  THEN [streak |-> 1, straight |-> straight + 1,
        bonus |-> IF straight + 1 >= 2
                  THEN [type |-> "straight",
                        amount |-> (straight + 1 - 1) * 100,
                        count |-> straight + 1]
                  ELSE NoBonus]
  ELSE [streak |-> 1, straight |-> 1, bonus |-> NoBonus]

\* the points of a word without its bonus
totalPoints_noBonus(combined_score, bonusScore) == combined_score

\* const totalPoints = wordData.combined_score + bonusScore
totalPoints(combined_score, bonusScore) == combined_score + bonusScore

\* ------------------------------------------------------------------ state
VARIABLES
  genSeedWord,    \* findAndScoreWords: the argument seedWord
  genLanguage,    \* findAndScoreWords: the argument language
  dictionary,     \* the imported word list of that language
  genResults,     \* the list findAndScoreWords returned
  genDone         \* whether findAndScoreWords has returned

genVars == <<genSeedWord, genLanguage, dictionary, genResults, genDone>>

\* the state of the Game component (Game.tsx), named as its useState hooks
VARIABLES
  seedWord,        \* seed word of the loaded level, "" before the load
  wordMap,         \* lower-cased word -> Word of the loaded level
  seedLetterMap,   \* letter -> occurrences in the seed word
  currentInput,    \* the input buffer
  foundWords,      \* FoundWordInfo list, most recent first
  score,           \* cumulative score
  isLoading,
  isGameOver,
  timeLeft,        \* remaining seconds
  lastWordLength,
  streakCount,
  straightCount,
  isInvalidWord,   \* the transient "invalid" flag
  isResumingGame,
  selectedSeedWordFile,   \* the level file in use, "" before the load
  savedSeedWordFileRef,   \* the level file of the resumed snapshot, or ""
  timerId,         \* whether the interval of the timer effect is set
  levelWords,      \* the words_list of the loaded level, or null
  currentLevel,
  loads,           \* the calls of loadData in flight, in the order they
                   \* were made: [level, savedSeedWordFile]
  lastLoadedDataRef,      \* the dataKey of the last call of loadData
  loadError,       \* the error the call of loadData that ended last has
                   \* caught and reported, "none" if it caught none
  submitted        \* the branch handleSubmit took ("over", "found",
                   \* "valid", "invalid", or "empty" for the invalid
                   \* branch taken on an empty input) if it was the last
                   \* handler to run, "queued" after two runs in one closure that
                   \* both took the valid branch, else "none"

\* the loaded level, and the player's progress in it
levelVars == <<levelWords, seedWord, wordMap, seedLetterMap,
               selectedSeedWordFile, savedSeedWordFileRef>>
loadVars == <<currentLevel, loads, lastLoadedDataRef, loadError>>
progressVars == <<foundWords, score, lastWordLength, streakCount,
                  straightCount>>

gameVars == <<levelVars, loadVars, progressVars, currentInput, isLoading,
              isGameOver, timeLeft, isInvalidWord, isResumingGame, timerId,
              submitted>>

\* the browser's storage (storage.ts), and the last calls of its functions
VARIABLES
  progress,        \* the stored GameProgress, NoProgress while none is
  updateCall,      \* the arguments of the last updateLevelProgress call
  starScore,       \* the argument of the last getStarRating call
  stars            \* what that call returned

storeVars == <<progress, updateCall, starScore, stars>>

vars == <<genVars, gameVars, storeVars>>

\* what the handlers and effects of a running level leave alone
otherVars == <<genVars, loadVars, storeVars>>

\* levelWords before a level has loaded
NoLevelWords == [isNull |-> TRUE, list |-> <<>>]

\* lastLoadedDataRef.current before a load
NoDataKey == [level |-> 0, seedWordFile |-> ""]

NoCall == [level |-> 0, score |-> 0, wordsFound |-> 0, totalWords |-> 0]

\* ------------------------------------------------------------------ inputs
Letters == {a, d}

LowerStrings(lo, hi) == UNION {[1..n -> Letters] : n \in lo..hi}

\* the strings of lo..hi letters, all lower case or with a capital first
\* letter
Strings(lo, hi) ==
  LowerStrings(lo, hi)
    \cup {[w EXCEPT ![1] = @ + UpperOffset] : w \in LowerStrings(lo, hi)}

SeedWords == {<<>>} \cup Strings(3, MaxSeedLen)
DictionaryWords == Strings(2, MaxWordLen)
Dictionaries == UNION {[1..n -> DictionaryWords] : n \in 0..MaxDict}

\* the Game component as mounted for a new game, before its level has loaded
GameMounted ==
  /\ seedWord = <<>>
  /\ wordMap = <<>>
  /\ seedLetterMap = <<>>
  /\ currentInput = <<>>
  /\ foundWords = <<>>
  /\ score = 0
  /\ isLoading = TRUE
  /\ isGameOver = FALSE
  /\ timeLeft = TIME_LIMIT
  /\ lastWordLength = 0
  /\ streakCount = 0
  /\ straightCount = 0
  /\ isInvalidWord = FALSE
  /\ isResumingGame = FALSE
  /\ selectedSeedWordFile = ""
  /\ savedSeedWordFileRef = ""
  /\ timerId = FALSE
  /\ submitted = "none"
  /\ levelWords = NoLevelWords
  /\ currentLevel = 1
  /\ loads = <<[level |-> 1, savedSeedWordFile |-> ""]>>
  /\ lastLoadedDataRef = [level |-> 1, seedWordFile |-> "random"]
  /\ loadError = "none"

\* nothing stored, and no call of the storage functions yet
StoreIdle ==
  /\ progress = NoProgress
  /\ updateCall = NoCall
  /\ starScore = 0
  /\ stars = 0

\* any seed word and any short dictionary, in any letter case
GenInit ==
  /\ GameMounted
  /\ StoreIdle
  /\ genSeedWord \in SeedWords
  /\ genLanguage \in Languages
  /\ dictionary \in Dictionaries
  /\ genResults = <<>>
  /\ genDone = FALSE

\* a seed word of full length and a longer dictionary, all in lower case
LongDictionaries ==
  UNION {[1..n -> LowerStrings(3, MaxWordLen)] : n \in 0..MaxLongDict}

ScoreInit ==
  /\ GameMounted
  /\ StoreIdle
  /\ genSeedWord \in LowerStrings(MaxSeedLen, MaxSeedLen)
  /\ genLanguage \in Languages
  /\ dictionary \in LongDictionaries
  /\ genResults = <<>>
  /\ genDone = FALSE

\* a call of findAndScoreWords(seedWord, language)
FindAndScoreWords ==
  /\ ~ genDone
  /\ genResults' = findAndScoreWords(genSeedWord, genLanguage, dictionary)
  /\ genDone' = TRUE
  /\ UNCHANGED <<genSeedWord, genLanguage, dictionary>>
  /\ UNCHANGED <<gameVars, storeVars>>

GenNext == FindAndScoreWords

SpecGen == GenInit /\ [][GenNext]_vars

SpecScore == ScoreInit /\ [][GenNext]_vars

\* ------------------------------------------------------------ Game actions
\* the generator's variables, unused by the Game component
GenIdle ==
  /\ genSeedWord = <<>>
  /\ genLanguage = "en"
  /\ dictionary = <<>>
  /\ genResults = <<>>
  /\ genDone = FALSE

\* the progress stored by a player who has played the levels before level
\* without finding a word, and is at level now
StoredBefore(level) ==
  IF level = 1 THEN NoProgress
  ELSE [stored |-> TRUE, currentLevel |-> level,
        completedLevels |->
          [l \in 1..(level - 1) |->
             [score |-> 0, wordsFound |-> 0, totalWords |-> 0]],
        totalScore |-> 0]

\* the component is mounted with currentLevel = 1, so that the load data
\* effect of the first render calls loadData for level 1, and the one of
\* the render after that (setCurrentLevel(level)) for the level to play
firstLoads(level, savedSeedWordFile) ==
  IF level = 1
  THEN <<[level |-> 1, savedSeedWordFile |-> savedSeedWordFile]>>
  ELSE <<[level |-> 1, savedSeedWordFile |-> savedSeedWordFile],
         [level |-> level, savedSeedWordFile |-> savedSeedWordFile]>>

\* the Game component as mounted to resume a saved game: the snapshot of a
\* session in which no word was found yet and few seconds were left, at a
\* level before the last
GameResumed ==
  /\ seedWord = <<>>
  /\ wordMap = <<>>
  /\ seedLetterMap = <<>>
  /\ currentInput = <<>>
  /\ foundWords = <<>>
  /\ score = 0
  /\ isLoading = TRUE
  /\ isGameOver = FALSE
  /\ timeLeft \in 0..MaxTicks
  /\ lastWordLength = 0
  /\ streakCount = 0
  /\ straightCount = 0
  /\ isInvalidWord = FALSE
  /\ isResumingGame = TRUE
  /\ currentLevel \in Levels \ {MaxLevel}
  /\ selectedSeedWordFile \in Range(levelMapping[currentLevel].seed_words)
  /\ savedSeedWordFileRef = selectedSeedWordFile
  /\ timerId = FALSE
  /\ submitted = "none"
  /\ levelWords = NoLevelWords
  /\ loads = firstLoads(currentLevel, savedSeedWordFileRef)
  /\ lastLoadedDataRef =
       [level |-> currentLevel, seedWordFile |-> savedSeedWordFileRef]
  /\ loadError = "none"
  /\ progress = StoredBefore(currentLevel)
  /\ updateCall = NoCall
  /\ starScore = 0
  /\ stars = 0

\* the Game component as mounted for a new game by a player whose stored
\* progress is at a level between the first and the last, or to play a
\* later level again (startLevel): loadData is called for startLevel at
\* once
GameContinued ==
  /\ seedWord = <<>>
  /\ wordMap = <<>>
  /\ seedLetterMap = <<>>
  /\ currentInput = <<>>
  /\ foundWords = <<>>
  /\ score = 0
  /\ isLoading = TRUE
  /\ isGameOver = FALSE
  /\ timeLeft = TIME_LIMIT
  /\ lastWordLength = 0
  /\ streakCount = 0
  /\ straightCount = 0
  /\ isInvalidWord = FALSE
  /\ isResumingGame = FALSE
  /\ currentLevel \in Levels \ {1}
  /\ selectedSeedWordFile = ""
  /\ savedSeedWordFileRef = ""
  /\ timerId = FALSE
  /\ submitted = "none"
  /\ levelWords = NoLevelWords
  /\ \E startLevel \in {0, currentLevel} :
       /\ startLevel = 0 => currentLevel < MaxLevel
       /\ loads = IF startLevel # 0
                  THEN <<[level |-> startLevel, savedSeedWordFile |-> ""]>>
                  ELSE firstLoads(currentLevel, "")
  /\ lastLoadedDataRef = [level |-> currentLevel, seedWordFile |-> "random"]
  /\ loadError = "none"
  /\ progress = StoredBefore(currentLevel)
  /\ updateCall = NoCall
  /\ starScore = 0
  /\ stars = 0

GameInit ==
  /\ GenIdle
  /\ \/ GameMounted /\ StoreIdle
     \/ GameContinued
     \/ GameResumed

\* the load data effect calls loadData when the dataKey of the render is
\* not the one of the last call; while resuming only with a saved file
LoadDue ==
  LET savedSeedWordFile == savedSeedWordFileRef
      dataKey == [level |-> currentLevel,
                  seedWordFile |-> IF savedSeedWordFile # ""
                                   THEN savedSeedWordFile ELSE "random"]
  IN /\ dataKey # lastLoadedDataRef
     /\ savedSeedWordFile # "" \/ ~ isResumingGame

\* the load data effect, run after the level has changed: it calls
\* loadData(levelToLoad, savedSeedWordFile), which sets isLoading before
\* its first fetch; the render with isLoading clears the interval. It is
\* followed while at most MaxStaleFound words are found, and to the last
\* level while the stored total score is at most MaxStoredScore.
LoadDataEffect ==
  /\ LoadDue
  /\ Len(foundWords) <= MaxStaleFound
  /\ currentLevel = MaxLevel => progress.totalScore <= MaxStoredScore
  /\ loads' = Append(loads, [level |-> currentLevel,
                             savedSeedWordFile |-> savedSeedWordFileRef])
  /\ lastLoadedDataRef' =
       [level |-> currentLevel,
        seedWordFile |-> IF savedSeedWordFileRef # ""
                         THEN savedSeedWordFileRef ELSE "random"]
  /\ isLoading' = TRUE
  /\ timerId' = FALSE
  /\ submitted' = "none"
  /\ UNCHANGED <<genVars, storeVars, levelVars, progressVars, currentLevel,
                 loadError, currentInput, isGameOver, timeLeft, isInvalidWord,
                 isResumingGame>>

\* loads without its i-th entry
removeLoad(i) == SubSeq(loads, 1, i - 1) \o SubSeq(loads, i + 1, Len(loads))

\* what the two fetches of loadData come to
LoadOutcomes == {"ok", "mappingFails", "levelFails", "malformed"}

\* the error loadData throws and catches for an outcome: an Error for a
\* response that is not ok, a TypeError for level data of the wrong format
loadErrorOf(outcome) ==
  IF outcome = "ok" THEN "none"
  ELSE IF outcome = "malformed" THEN "TypeError" ELSE "Error"

\* a faulty variant: the level data are set as they are read, the seed
\* word before the format of the words_list is checked
LoadData_partial ==
  /\ \E i \in DOMAIN loads : \E outcome \in LoadOutcomes :
       /\ loads' = removeLoad(i)
       /\ loadError' = loadErrorOf(outcome)
       /\ IF outcome = "mappingFails"
          THEN UNCHANGED levelVars
          ELSE \E n \in DOMAIN levelMapping[loads[i].level].seed_words :
                 LET seedWordFileToUse ==
                       IF loads[i].savedSeedWordFile # ""
                       THEN loads[i].savedSeedWordFile
                       ELSE levelMapping[loads[i].level].seed_words[n]
                     data == LevelFiles[seedWordFileToUse]
                 IN /\ selectedSeedWordFile' = seedWordFileToUse
                    /\ IF outcome = "ok"
                       THEN /\ levelWords' =
                                 [isNull |-> FALSE, list |-> data.words_list]
                            /\ seedWord' = data.seed_word
                            /\ wordMap' = newWordMap(data.words_list)
                            /\ seedLetterMap' =
                                 getCharMap(toLowerCase(data.seed_word))
                       ELSE IF outcome = "malformed"
                       THEN /\ seedWord' = data.seed_word
                            /\ UNCHANGED <<levelWords, wordMap,
                                           seedLetterMap>>
                       ELSE UNCHANGED <<levelWords, seedWord, wordMap,
                                        seedLetterMap>>
                    /\ UNCHANGED savedSeedWordFileRef
  /\ isLoading' = FALSE
  /\ submitted' = "none"
  /\ UNCHANGED <<genVars, storeVars, progressVars, currentLevel,
                 lastLoadedDataRef, currentInput, isGameOver, timeLeft,
                 isInvalidWord, isResumingGame, timerId>>

\* a call of loadData(level, savedSeedWordFile) in flight comes to its end,
\* whichever call was made first. It uses the saved level file when there
\* is one, else one of the candidates of the level at random; unless both
\* fetches succeed and the words_list is an array it sets no level data.
\* In every case it ends with setIsLoading(false).
LoadData ==
  /\ \E i \in DOMAIN loads : \E outcome \in LoadOutcomes :
       /\ loads' = removeLoad(i)
       /\ loadError' = loadErrorOf(outcome)
       /\ IF outcome = "mappingFails"
          THEN UNCHANGED levelVars
          ELSE \E n \in DOMAIN levelMapping[loads[i].level].seed_words :
                 LET seedWordFileToUse ==
                       IF loads[i].savedSeedWordFile # ""
                       THEN loads[i].savedSeedWordFile
                       ELSE levelMapping[loads[i].level].seed_words[n]
                     data == LevelFiles[seedWordFileToUse]
                 IN /\ selectedSeedWordFile' = seedWordFileToUse
                    /\ IF outcome = "ok"
                       THEN /\ levelWords' =
                                 [isNull |-> FALSE, list |-> data.words_list]
                            /\ seedWord' = data.seed_word
                            /\ wordMap' = newWordMap(data.words_list)
                            /\ seedLetterMap' =
                                 getCharMap(toLowerCase(data.seed_word))
                       ELSE UNCHANGED <<levelWords, seedWord, wordMap,
                                        seedLetterMap>>
                    /\ UNCHANGED savedSeedWordFileRef
  /\ isLoading' = FALSE
  /\ submitted' = "none"
  /\ UNCHANGED <<genVars, storeVars, progressVars, currentLevel,
                 lastLoadedDataRef, currentInput, isGameOver, timeLeft,
                 isInvalidWord, isResumingGame, timerId>>

\* a faulty variant: "resuming" mode is ended while the data are loading,
\* and no more once they have loaded
FinishResuming_whileLoading ==
  /\ isResumingGame /\ isLoading
  /\ isResumingGame' = FALSE
  /\ submitted' = "none"
  /\ UNCHANGED <<otherVars, levelVars, progressVars, currentInput, isLoading,
                 isGameOver, timeLeft, isInvalidWord, timerId>>

\* the effect that ends "resuming" mode once the data has loaded
FinishResuming ==
  /\ isResumingGame /\ ~ isLoading
  /\ isResumingGame' = FALSE
  /\ submitted' = "none"
  /\ UNCHANGED <<otherVars, levelVars, progressVars, currentInput, isLoading,
                 isGameOver, timeLeft, isInvalidWord, timerId>>

\* the first line of the timer effect: it returns early unless this holds
TimerRuns == ~ (isGameOver \/ isLoading \/ isResumingGame)

\* the timer effect run with time left: it sets the interval. (Run again
\* after a change of its dependencies it clears the interval and sets a new
\* one, which leaves this state as it is.)
TimerStart ==
  /\ TimerRuns
  /\ ~ LoadDue
  /\ ~ (timeLeft <= 0)
  /\ ~ timerId
  /\ timerId' = TRUE
  /\ submitted' = "none"
  /\ UNCHANGED <<otherVars, levelVars, progressVars, currentInput, isLoading,
                 isGameOver, timeLeft, isInvalidWord, isResumingGame>>

\* the dependencies of the timer effect (language does not change)
timerDeps ==
  <<isGameOver, isLoading, isResumingGame, timeLeft, seedWord, currentLevel,
    foundWords, score, lastWordLength, streakCount, straightCount,
    selectedSeedWordFile>>

\* the step makes the timer effect run again while its interval is pending:
\* the cleanup of the effect clears the interval and the effect sets a new
\* one, which is due a full second after the step
TimerRearmed == timerId /\ timerId' /\ timerDeps' # timerDeps

\* the callback of the interval, setTimeLeft(prev => prev - 1): it runs
\* whenever the interval is due and has not been cleared, also before the
\* timer effect has run again after the tick before. Only the first and
\* the last MaxTicks seconds of a level are followed, and MaxTicks seconds
\* past 0.
TimerTick ==
  /\ timerId
  /\ \/ timeLeft > TIME_LIMIT - MaxTicks
     \/ timeLeft <= MaxTicks /\ timeLeft > 0 - MaxTicks
  /\ timeLeft' = timeLeft - 1
  /\ submitted' = "none"
  /\ UNCHANGED <<otherVars, levelVars, progressVars, currentInput, isLoading,
                 isGameOver, isInvalidWord, isResumingGame, timerId>>

\* the seconds of a level that are not followed one by one, passed in one
\* step: the ticks from TIME_LIMIT - MaxTicks down to MaxTicks. No load is
\* in flight for that long.
TimerTicks ==
  /\ timerId
  /\ loads = <<>>
  /\ timeLeft = TIME_LIMIT - MaxTicks
  /\ timeLeft' = MaxTicks
  /\ submitted' = "none"
  /\ UNCHANGED <<otherVars, levelVars, progressVars, currentInput,
                 isLoading, isGameOver, isInvalidWord, isResumingGame,
                 timerId>>

\* every word of the level has been found
AllFound ==
  /\ DOMAIN wordMap # {}
  /\ \A word \in DOMAIN wordMap :
       \E i \in DOMAIN foundWords : foundWords[i].word = word

\* a faulty variant: the level also ends when its last word is found
TimerExpired_whenAllFound ==
  /\ TimerRuns
  /\ timeLeft <= 0 \/ AllFound
  /\ isGameOver' = TRUE
  /\ timerId' = FALSE
  /\ submitted' = "none"
  /\ UNCHANGED <<otherVars, levelVars, progressVars, currentInput,
                 isLoading, timeLeft, isInvalidWord, isResumingGame>>

\* a faulty variant: the game is over but the interval is left running
TimerExpired_keepsInterval ==
  /\ TimerRuns
  /\ timeLeft <= 0
  /\ isGameOver' = TRUE
  /\ submitted' = "none"
  /\ UNCHANGED <<otherVars, levelVars, progressVars, currentInput,
                 isLoading, timeLeft, isInvalidWord, isResumingGame,
                 timerId>>

\* the timer effect run with no time left: the cleanup of the run before
\* clears the interval, and the game is over
TimerExpired ==
  /\ TimerRuns
  /\ timeLeft <= 0
  /\ isGameOver' = TRUE
  /\ timerId' = FALSE
  /\ submitted' = "none"
  /\ UNCHANGED <<otherVars, levelVars, progressVars, currentInput, isLoading,
                 timeLeft, isInvalidWord, isResumingGame>>

\* the keyboards are shown, and the key listener is attached, while the
\* level is loaded and the game is not over
KeyboardShown == ~ isLoading /\ ~ isGameOver

Keys == {a, d, e}

\* handleKeyPress(letter), and the letter branch of handleKeyDown
handleKeyPress(letter) ==
  /\ KeyboardShown
  /\ LET usedCounts == getCharMap(currentInput)
         availableCount == getOrZero(seedLetterMap, letter)
         usedCount == getOrZero(usedCounts, letter)
     IN IF usedCount < availableCount
        THEN currentInput' = Append(currentInput, letter)
        ELSE currentInput' = currentInput
  /\ submitted' = "none"
  /\ UNCHANGED <<otherVars, levelVars, progressVars, isLoading, isGameOver,
                 timeLeft, isInvalidWord, isResumingGame, timerId>>

\* the letter branch of one handleKeyDown listener run for each of the
\* keys in turn: usedCounts is counted in the currentInput of the render
\* the listener belongs to (closureInput), the letter is appended to the
\* state at the time (prev => prev + key)
RECURSIVE keyDownAll(_, _, _, _)
keyDownAll(input, closureInput, keys, i) ==
  IF i > Len(keys) THEN input
  ELSE LET usedCounts == getCharMap(closureInput)
           availableCount == getOrZero(seedLetterMap, keys[i])
           usedCount == getOrZero(usedCounts, keys[i])
       IN keyDownAll(IF usedCount < availableCount
                     THEN Append(input, keys[i]) ELSE input,
                     closureInput, keys, i + 1)

\* key events that reach the listener of one render before the keyboard
\* effect has attached the listener of the next: one key and up to
\* MaxStaleKeys more. They are followed while at most MaxStaleFound words
\* are found.
handleKeyDownQueued ==
  /\ KeyboardShown
  /\ Len(foundWords) <= MaxStaleFound
  /\ \E n \in 2..(1 + MaxStaleKeys) : \E keys \in [1..n -> Keys] :
       currentInput' = keyDownAll(currentInput, currentInput, keys, 1)
  /\ submitted' = "none"
  /\ UNCHANGED <<otherVars, levelVars, progressVars, isLoading, isGameOver,
                 timeLeft, isInvalidWord, isResumingGame, timerId>>

\* a faulty variant: delete empties the buffer
onDelete_clear ==
  /\ KeyboardShown
  /\ currentInput' = <<>>
  /\ submitted' = "none"
  /\ UNCHANGED <<otherVars, levelVars, progressVars, isLoading, isGameOver,
                 timeLeft, isInvalidWord, isResumingGame, timerId>>

\* onDelete, and the backspace branch of handleKeyDown:
\* setCurrentInput(prev => prev.slice(0, -1))
onDelete ==
  /\ KeyboardShown
  /\ currentInput' = SubSeq(currentInput, 1, Len(currentInput) - 1)
  /\ submitted' = "none"
  /\ UNCHANGED <<otherVars, levelVars, progressVars, isLoading, isGameOver,
                 timeLeft, isInvalidWord, isResumingGame, timerId>>

\* handleSubmit with the counters a miss sets, with or without the reset of
\* the counters on a word found before, and with or without the clearing
\* of a rejected input: the faulty variants below are cases of it
handleSubmitVariant(missStreak, missStraight, foundAgainResets, clearsRejected) ==
  /\ ~ isLoading
  /\ IF isGameOver
     THEN /\ submitted' = "over"
          /\ UNCHANGED <<levelVars, progressVars, currentInput, isLoading,
                         isGameOver, timeLeft, isInvalidWord, isResumingGame,
                         timerId>>
     ELSE LET lowerInput == toLowerCase(currentInput)
          IN /\ IF \E i \in DOMAIN foundWords : foundWords[i].word = lowerInput
                THEN /\ isInvalidWord' = TRUE
                     /\ IF foundAgainResets
                        THEN /\ streakCount' = 0
                             /\ straightCount' = 0
                             /\ UNCHANGED <<foundWords, score,
                                            lastWordLength>>
                        ELSE UNCHANGED progressVars
                     /\ submitted' = "found"
                ELSE IF lowerInput \in DOMAIN wordMap
                THEN LET wordData == wordMap[lowerInput]
                         newWordLength == Len(wordData.word)
                         counted == bonusFor(newWordLength, lastWordLength,
                                             streakCount, straightCount)
                         newFoundWord ==
                           [word |-> lowerInput,
                            score |-> wordData.combined_score,
                            bonus |-> counted.bonus]
                     IN /\ streakCount' = counted.streak
                        /\ straightCount' = counted.straight
                        /\ lastWordLength' = newWordLength
                        /\ score' = score
                                      + totalPoints(wordData.combined_score,
                                                    counted.bonus.amount)
                        /\ foundWords' = <<newFoundWord>> \o foundWords
                        /\ UNCHANGED isInvalidWord
                        /\ submitted' = "valid"
                ELSE /\ isInvalidWord' = TRUE
                     /\ streakCount' = missStreak
                     /\ straightCount' = missStraight
                     /\ UNCHANGED <<foundWords, score, lastWordLength>>
                     /\ submitted' = IF currentInput = <<>>
                                       THEN "empty" ELSE "invalid"
             /\ currentInput' =
                  IF ~ clearsRejected /\ lowerInput \notin DOMAIN wordMap
                  THEN currentInput ELSE <<>>
             /\ UNCHANGED <<levelVars, isLoading, isGameOver, timeLeft,
                            isResumingGame, timerId>>
  /\ UNCHANGED otherVars

\* a faulty variant: a miss resets the counters to 1, as a word that
\* continues nothing does
handleSubmit_missResetsToOne == handleSubmitVariant(1, 1, FALSE, TRUE)

\* a faulty variant: a word found before breaks the streak, as a miss does
handleSubmit_foundAgainResets == handleSubmitVariant(0, 0, TRUE, TRUE)

\* a faulty variant: a miss leaves the counters as they are
handleSubmit_missKeepsCounters ==
  handleSubmitVariant(streakCount, straightCount, FALSE, TRUE)

\* a faulty variant: input that is no word of the level stays in the buffer
handleSubmit_keepsRejected == handleSubmitVariant(0, 0, FALSE, FALSE)

\* a faulty variant: a submit made when the game is over counts as a miss
handleSubmit_overCountsMiss ==
  IF isGameOver
  THEN /\ ~ isLoading
       /\ submitted' = "over"
       /\ streakCount' = 0
       /\ straightCount' = 0
       /\ UNCHANGED <<otherVars, levelVars, foundWords, score,
                      lastWordLength, currentInput, isLoading, isGameOver,
                      timeLeft, isInvalidWord, isResumingGame, timerId>>
  ELSE handleSubmitVariant(0, 0, FALSE, TRUE)

\* a faulty variant: a submit of an empty input is ignored
handleSubmit_ignoresEmpty ==
  IF currentInput = <<>> /\ ~ isGameOver
  THEN /\ ~ isLoading
       /\ submitted' = "none"
       /\ UNCHANGED <<otherVars, levelVars, progressVars, currentInput,
                      isLoading, isGameOver, timeLeft, isInvalidWord,
                      isResumingGame, timerId>>
  ELSE handleSubmitVariant(0, 0, FALSE, TRUE)

\* handleSubmit
handleSubmit ==
  /\ ~ isLoading
  /\ IF isGameOver
     THEN /\ submitted' = "over"
          /\ UNCHANGED <<levelVars, progressVars, currentInput, isLoading,
                         isGameOver, timeLeft, isInvalidWord, isResumingGame,
                         timerId>>
     ELSE LET lowerInput == toLowerCase(currentInput)
          IN /\ IF \E i \in DOMAIN foundWords : foundWords[i].word = lowerInput
                THEN /\ isInvalidWord' = TRUE
                     /\ UNCHANGED progressVars
                     /\ submitted' = "found"
                ELSE IF lowerInput \in DOMAIN wordMap
                THEN LET wordData == wordMap[lowerInput]
                         newWordLength == Len(wordData.word)
                         counted == bonusFor(newWordLength, lastWordLength,
                                             streakCount, straightCount)
                         newFoundWord ==
                           [word |-> lowerInput,
                            score |-> wordData.combined_score,
                            bonus |-> counted.bonus]
                     IN /\ streakCount' = counted.streak
                        /\ straightCount' = counted.straight
                        /\ lastWordLength' = newWordLength
                        /\ score' = score
                                      + totalPoints(wordData.combined_score,
                                                    counted.bonus.amount)
                        /\ foundWords' = <<newFoundWord>> \o foundWords
                        /\ UNCHANGED isInvalidWord
                        /\ submitted' = "valid"
                ELSE /\ isInvalidWord' = TRUE
                     /\ streakCount' = 0
                     /\ straightCount' = 0
                     /\ UNCHANGED <<foundWords, score, lastWordLength>>
                     /\ submitted' = IF currentInput = <<>>
                                       THEN "empty" ELSE "invalid"
             /\ currentInput' = <<>>
             /\ UNCHANGED <<levelVars, isLoading, isGameOver, timeLeft,
                            isResumingGame, timerId>>
  /\ UNCHANGED otherVars

\* two enter key events that reach the handleKeyDown listener of one
\* render before the keyboard effect has attached the listener of the
\* next: handleSubmit runs twice in one closure. Both runs test the found
\* list, the word map and the counters of that render; the score and the
\* found list are set with functional updates (prev => ...), which are
\* applied one after the other, the counters and the flag with values, of
\* which the last one stays. It is followed while at most MaxStaleFound
\* words are found, at the levels before the last.
handleSubmitQueued ==
  /\ KeyboardShown
  /\ Len(foundWords) <= MaxStaleFound
  /\ currentLevel < MaxLevel
  /\ LET lowerInput == toLowerCase(currentInput)
     IN /\ IF \E i \in DOMAIN foundWords : foundWords[i].word = lowerInput
           THEN /\ isInvalidWord' = TRUE
                /\ UNCHANGED progressVars
                /\ submitted' = "found"
           ELSE IF lowerInput \in DOMAIN wordMap
           THEN LET wordData == wordMap[lowerInput]
                    newWordLength == Len(wordData.word)
                    counted == bonusFor(newWordLength, lastWordLength,
                                        streakCount, straightCount)
                    newFoundWord ==
                      [word |-> lowerInput,
                       score |-> wordData.combined_score,
                       bonus |-> counted.bonus]
                    points == totalPoints(wordData.combined_score,
                                          counted.bonus.amount)
                IN /\ streakCount' = counted.streak
                   /\ straightCount' = counted.straight
                   /\ lastWordLength' = newWordLength
                   /\ score' = (score + points) + points
                   /\ foundWords' =
                        <<newFoundWord>> \o (<<newFoundWord>> \o foundWords)
                   /\ UNCHANGED isInvalidWord
                   /\ submitted' = "queued"
           ELSE /\ isInvalidWord' = TRUE
                /\ streakCount' = 0
                /\ straightCount' = 0
                /\ UNCHANGED <<foundWords, score, lastWordLength>>
                /\ submitted' = IF currentInput = <<>>
                                  THEN "empty" ELSE "invalid"
        /\ currentInput' = <<>>
  /\ UNCHANGED <<otherVars, levelVars, isLoading, isGameOver, timeLeft,
                 isResumingGame, timerId>>

\* the timeout that handleSubmit sets on an invalid word, 5 seconds later
ClearInvalidWord ==
  /\ isInvalidWord
  /\ isInvalidWord' = FALSE
  /\ submitted' = "none"
  /\ UNCHANGED <<otherVars, levelVars, progressVars, currentInput, isLoading,
                 isGameOver, timeLeft, isResumingGame, timerId>>

\* the first of the levels of the mapping, in ascending order, that has no
\* entry in completedLevels; 0 for null
nextUnplayed(completedLevels) ==
  IF Levels \subseteq DOMAIN completedLevels THEN 0
  ELSE CHOOSE level \in Levels \ DOMAIN completedLevels :
         \A l \in Levels \ DOMAIN completedLevels : level <= l

\* a faulty variant: the next level keeps the score of the level before
handleNextLevel_keepsScore ==
  /\ isGameOver
  /\ Len(foundWords) <= MaxNextFound
  /\ \E mappingOk \in BOOLEAN :
       LET updated ==
             IF ~ levelWords.isNull
             THEN updateLevelProgress(progress, currentLevel, score,
                                      Len(foundWords), Len(levelWords.list))
             ELSE progress
           nextUnplayedLevel ==
             IF mappingOk THEN nextUnplayed(updated.completedLevels) ELSE 0
       IN IF nextUnplayedLevel = 0
          THEN /\ progress' = updated
               /\ isGameOver' = TRUE
               /\ UNCHANGED <<progressVars, timeLeft, isResumingGame,
                              isInvalidWord, currentInput, currentLevel>>
          ELSE /\ progress' =
                    IF updated.stored
                    THEN [updated EXCEPT !.currentLevel = nextUnplayedLevel]
                    ELSE updated
               /\ timeLeft' = TIME_LIMIT
               /\ isGameOver' = FALSE
               /\ isResumingGame' = FALSE
               /\ isInvalidWord' = FALSE
               /\ currentInput' = <<>>
               /\ currentLevel' = nextUnplayedLevel
               /\ foundWords' = <<>>
               /\ lastWordLength' = 0
               /\ streakCount' = 0
               /\ straightCount' = 0
               /\ UNCHANGED score
  /\ submitted' = "none"
  /\ UNCHANGED <<genVars, levelVars, loads, lastLoadedDataRef, loadError,
                 isLoading,
                 timerId, updateCall, starScore, stars>>

\* handleNextLevel, the button of the game over dialog: it stores the score
\* of the level, and unless every level has been played (or the mapping
\* cannot be fetched) it resets the session and sets the next unplayed
\* level. It is followed while at most MaxNextFound words are found.
handleNextLevel ==
  /\ isGameOver
  /\ Len(foundWords) <= MaxNextFound
  /\ \E mappingOk \in BOOLEAN :
       LET updated ==
             IF ~ levelWords.isNull
             THEN updateLevelProgress(progress, currentLevel, score,
                                      Len(foundWords), Len(levelWords.list))
             ELSE progress
           nextUnplayedLevel ==
             IF mappingOk THEN nextUnplayed(updated.completedLevels) ELSE 0
       IN IF nextUnplayedLevel = 0
          THEN /\ progress' = updated
               /\ isGameOver' = TRUE
               /\ UNCHANGED <<progressVars, timeLeft, isResumingGame,
                              isInvalidWord, currentInput, currentLevel>>
          ELSE /\ progress' =
                    IF updated.stored
                    THEN [updated EXCEPT !.currentLevel = nextUnplayedLevel]
                    ELSE updated
               /\ foundWords' = <<>>
               /\ score' = 0
               /\ timeLeft' = TIME_LIMIT
               /\ isGameOver' = FALSE
               /\ lastWordLength' = 0
               /\ streakCount' = 0
               /\ straightCount' = 0
               /\ isResumingGame' = FALSE
               /\ isInvalidWord' = FALSE
               /\ currentInput' = <<>>
               /\ currentLevel' = nextUnplayedLevel
  /\ submitted' = "none"
  /\ UNCHANGED <<genVars, levelVars, loads, lastLoadedDataRef, loadError,
                 isLoading,
                 timerId, updateCall, starScore, stars>>

GameNext ==
  \/ LoadDataEffect
  \/ LoadData
  \/ FinishResuming
  \/ TimerStart
  \/ TimerTick
  \/ TimerTicks
  \/ TimerExpired
  \/ \E letter \in Keys : handleKeyPress(letter)
  \/ handleKeyDownQueued
  \/ onDelete
  \/ handleSubmit
  \/ handleSubmitQueued
  \/ ClearInvalidWord
  \/ handleNextLevel

Spec == GameInit /\ [][GameNext]_vars

\* the effects of a render do run: the timer effect of a render with no
\* time left is not put off for ever
SpecLive == Spec /\ WF_vars(TimerExpired)

\* fetches come to an end, the effects of a render do run, the timeout of
\* the finish resuming effect and the interval of the timer effect fire
\* when they are due; nothing is assumed of the player
SpecFair ==
  /\ Spec
  /\ WF_vars(LoadDataEffect)
  /\ WF_vars(LoadData)
  /\ WF_vars(FinishResuming)
  /\ WF_vars(TimerStart)
  /\ WF_vars(TimerTick)
  /\ WF_vars(TimerTicks)
  /\ WF_vars(TimerExpired)

\* ------------------------------------------------- the snapshot, resumed
\* the CurrentGameState that the timer effect saves when it sets the
\* interval (language, seedWord, savedAt and isReplayedLevel are not read
\* back by the resume logic, except for the comparison of the language).
\* JSON.stringify and JSON.parse give back the integers, strings, null and
\* arrays it is made of as they were.
savedGameState ==
  [level |-> currentLevel,
   selectedSeedWordFile |-> selectedSeedWordFile,
   foundWords |-> foundWords,
   score |-> score,
   timeRemaining |-> timeLeft,
   lastWordLength |-> lastWordLength,
   streakCount |-> streakCount,
   straightCount |-> straightCount]

\* what the mount of the Game component with isResuming does with the
\* snapshot currentGameState: the hooks have their initial values, the
\* resume logic of the initialization effect sets the saved values and
\* savedSeedWordFileRef, and the load data effect of the first render and
\* of the render that follows call loadData with the saved file
resumeFrom(currentGameState) ==
  /\ score' = currentGameState.score
  /\ timeLeft' = currentGameState.timeRemaining
  /\ lastWordLength' = currentGameState.lastWordLength
  /\ streakCount' = currentGameState.streakCount
  /\ straightCount' = currentGameState.straightCount
  /\ foundWords' = currentGameState.foundWords
  /\ isGameOver' = FALSE
  /\ isResumingGame' = TRUE
  /\ currentLevel' = currentGameState.level
  /\ selectedSeedWordFile' = currentGameState.selectedSeedWordFile
  /\ savedSeedWordFileRef' = currentGameState.selectedSeedWordFile
  /\ loads' = firstLoads(currentGameState.level,
                         currentGameState.selectedSeedWordFile)
  /\ lastLoadedDataRef' =
       [level |-> currentGameState.level,
        seedWordFile |-> currentGameState.selectedSeedWordFile]
  /\ levelWords' = NoLevelWords
  /\ seedWord' = <<>>
  /\ wordMap' = <<>>
  /\ seedLetterMap' = <<>>
  /\ currentInput' = <<>>
  /\ isLoading' = TRUE
  /\ isInvalidWord' = FALSE
  /\ timerId' = FALSE
  /\ loadError' = "none"
  /\ submitted' = "none"
  /\ UNCHANGED <<genVars, storeVars>>

\* a faulty variant: the file of the snapshot is not kept for the load,
\* which draws a file of the level
Resume_drawsFile ==
  /\ TimerRuns /\ timerId /\ timeLeft > 0
  /\ seedWord # <<>>
  /\ score' = savedGameState.score
  /\ timeLeft' = savedGameState.timeRemaining
  /\ lastWordLength' = savedGameState.lastWordLength
  /\ streakCount' = savedGameState.streakCount
  /\ straightCount' = savedGameState.straightCount
  /\ foundWords' = savedGameState.foundWords
  /\ isGameOver' = FALSE
  /\ isResumingGame' = TRUE
  /\ currentLevel' = savedGameState.level
  /\ selectedSeedWordFile' = savedGameState.selectedSeedWordFile
  /\ savedSeedWordFileRef' = ""
  /\ loads' = firstLoads(savedGameState.level, "")
  /\ lastLoadedDataRef' =
       [level |-> savedGameState.level, seedWordFile |-> "random"]
  /\ levelWords' = NoLevelWords
  /\ seedWord' = <<>>
  /\ wordMap' = <<>>
  /\ seedLetterMap' = <<>>
  /\ currentInput' = <<>>
  /\ isLoading' = TRUE
  /\ isInvalidWord' = FALSE
  /\ timerId' = FALSE
  /\ loadError' = "none"
  /\ submitted' = "none"
  /\ UNCHANGED <<genVars, storeVars>>

\* the game is left while the level is played and the timer runs, and is
\* resumed from the snapshot that the timer effect has saved in this
\* render; calls of loadData still in flight end in a component that is
\* gone
Resume ==
  /\ TimerRuns /\ timerId /\ timeLeft > 0
  /\ seedWord # <<>>
  /\ resumeFrom(savedGameState)

ResumeNext ==
  \/ LoadData
  \/ FinishResuming
  \/ TimerStart
  \/ TimerTick
  \/ \E letter \in Keys : handleKeyPress(letter)
  \/ handleSubmit
  \/ Resume

\* the games that are left and resumed are those at the levels before
\* the last
ResumeInit == GameInit /\ currentLevel < MaxLevel

SpecResume == ResumeInit /\ [][ResumeNext]_vars

\* ---------------------------------------------------- storage.ts: calls
\* the scores, word counts and levels the storage functions are called with
StoredScores == {0, 100, 250}
WordCounts == {1, 3}
StarScores == {0, 1, 999, 1000, 1001, 9999, 10000, 10001, 19999, 20000,
               20001, 30000}

\* the stored progress of a player: nothing, or some levels completed and
\* the total of their scores
LevelRecords == [score : StoredScores, wordsFound : {1}, totalWords : {3}]

RECURSIVE SumScores(_)
SumScores(completedLevels) ==
  IF DOMAIN completedLevels = {} THEN 0
  ELSE LET l == CHOOSE x \in DOMAIN completedLevels : TRUE
       IN completedLevels[l].score
            + SumScores([k \in DOMAIN completedLevels \ {l} |->
                           completedLevels[k]])

StoredProgress ==
  {NoProgress} \cup
  UNION {{[stored |-> TRUE, currentLevel |-> level,
           completedLevels |-> completed,
           totalScore |-> SumScores(completed)] :
            completed \in [played -> LevelRecords], level \in Levels} :
         played \in (SUBSET Levels) \ {{}}}

ProgressInit ==
  /\ GameMounted
  /\ GenIdle
  /\ progress \in StoredProgress
  /\ updateCall = NoCall
  /\ starScore = 0
  /\ stars = 0

\* a call of updateLevelProgress(level, score, wordsFound, totalWords,
\* language)
UpdateLevelProgress ==
  /\ \E level \in Levels, newScore \in StoredScores,
        wordsFound \in WordCounts, totalWords \in {3} :
       /\ updateCall' = [level |-> level, score |-> newScore,
                         wordsFound |-> wordsFound,
                         totalWords |-> totalWords]
       /\ progress' = updateLevelProgress(progress, level, newScore,
                                          wordsFound, totalWords)
  /\ UNCHANGED <<genVars, gameVars, starScore, stars>>

\* a call of getStarRating(score)
GetStarRating ==
  /\ \E newScore \in StarScores :
       /\ starScore' = newScore
       /\ stars' = getStarRating(newScore)
  /\ UNCHANGED <<genVars, gameVars, progress, updateCall>>

ProgressNext == UpdateLevelProgress \/ GetStarRating

SpecProgress == ProgressInit /\ [][ProgressNext]_vars

\* ============================================================== properties
\* the level is loaded and played: not loading, not over, not resuming
Active == ~ isLoading /\ ~ isGameOver /\ ~ isResumingGame

\* the step is the one of handleNextLevel that starts the next level
NextLevelStep ==
  /\ isGameOver /\ ~ isGameOver'
  /\ timeLeft' = TIME_LIMIT
  /\ score' = 0
  /\ foundWords' = <<>>

\* the number of occurrences of character c in str
Count(c, str) == Cardinality({i \in DOMAIN str : str[i] = c})

\* the letter multiset of word is contained in that of seed
SubMultiset(word, seed) ==
  \A c \in Range(toLowerCase(word)) :
     Count(c, toLowerCase(word)) <= Count(c, toLowerCase(seed))

ResultWords == {toLowerCase(genResults[i].word) : i \in DOMAIN genResults}

\* C1: every returned entry uses each character at most as often as the
\* seed word has it (both in lower case).
C1_SubMultiset ==
  genDone =>
    \A i \in DOMAIN genResults : SubMultiset(genResults[i].word, genSeedWord)

\* of two dictionary words one was returned, and the other one, made of
\* letters of the seed word only, has one of them too often
C1_Witness ==
  /\ genDone
  /\ Len(dictionary) = 2
  /\ Len(genResults) = 1
  /\ \E i \in DOMAIN dictionary :
        /\ Len(dictionary[i]) = 3
        /\ Range(toLowerCase(dictionary[i]))
              \subseteq Range(toLowerCase(genSeedWord))
        /\ ~ SubMultiset(dictionary[i], genSeedWord)

\* C2: the returned words are exactly the dictionary words of 3 to
\* len(seed) letters that differ from the seed word in lower case and
\* whose letters the seed word holds.
C2_ExactWordSet ==
  genDone =>
    ResultWords =
      {toLowerCase(dictionary[i]) :
         i \in {j \in DOMAIN dictionary :
                  /\ Len(dictionary[j]) >= 3
                  /\ Len(dictionary[j]) <= Len(genSeedWord)
                  /\ toLowerCase(dictionary[j]) # toLowerCase(genSeedWord)
                  /\ SubMultiset(dictionary[j], genSeedWord)}}

\* C3: no returned entry equals the seed word when both are compared in
\* lower case.
C3_NoSelfMatch ==
  genDone =>
    \A i \in DOMAIN genResults :
       toLowerCase(genResults[i].word) # toLowerCase(genSeedWord)

\* C8: the returned list holds no word twice.
C8_NoDuplicateWords ==
  genDone =>
    \A i, j \in DOMAIN genResults :
       i # j => genResults[i].word # genResults[j].word

\* ------------------------------------------------- scoring, from the result
\* the sum of the letter values of the letters of word
RECURSIVE SumOver(_, _, _)
SumOver(S, lang, word) ==
  IF S = {} THEN 0
  ELSE LET c == CHOOSE x \in S : TRUE
       IN letterValue(lang, c) * Count(c, toLowerCase(word))
            + SumOver(S \ {c}, lang, word)

Uncommonness(word) == SumOver(Range(toLowerCase(word)), genLanguage, word)

ResultLengths == {Len(genResults[i].word) : i \in DOMAIN genResults}
ResultUncommonnesses ==
  {Uncommonness(genResults[i].word) : i \in DOMAIN genResults}

Least(S) == CHOOSE m \in S : \A x \in S : m <= x
Greatest(S) == CHOOSE m \in S : \A x \in S : m >= x

\* (value - min) / (max - min) over the set S as <<num, den>>, and 1 when
\* all values of S are equal
NormalizedIn(value, S) ==
  IF Greatest(S) > Least(S)
  THEN <<value - Least(S), Greatest(S) - Least(S)>>
  ELSE <<1, 1>>

\* n is the integer nearest to num / den (a tie going up)
IsRounded(n, num, den) ==
  /\ (2 * n - 1) * den <= 2 * num
  /\ 2 * num < (2 * n + 1) * den

\* C4: every combined_score is in 10..1000 and every
\* estimated_uncommonness in 1..5.
C4_ScoreBounds ==
  genDone =>
    \A i \in DOMAIN genResults :
       /\ genResults[i].combined_score \in 10..1000
       /\ genResults[i].estimated_uncommonness \in 1..5

C4_Witness ==
  /\ genDone
  /\ \E i, j \in DOMAIN genResults :
        /\ genResults[i].combined_score = 1000
        /\ genResults[i].estimated_uncommonness = 5
        /\ genResults[j].combined_score = 10
        /\ genResults[j].estimated_uncommonness = 1

DisplayWord(word) ==
  IF genLanguage = "en" THEN toUpperCaseChar(word[1]) \o Tail(word) ELSE word

C6_SortedStable ==
  genDone =>
    \A i, j \in DOMAIN genResults :
       i < j =>
         /\ genResults[i].combined_score >= genResults[j].combined_score
         /\ (/\ genResults[i].combined_score = genResults[j].combined_score
             /\ genResults[i].word # genResults[j].word)
            => \E k, l \in DOMAIN dictionary :
                  /\ k < l
                  /\ DisplayWord(dictionary[k]) = genResults[i].word
                  /\ DisplayWord(dictionary[l]) = genResults[j].word

\* two different words of equal score behind a word of higher score that
\* the dictionary lists last
C6_Witness ==
  /\ genDone
  /\ Len(genResults) = 3
  /\ genResults[1].combined_score > genResults[2].combined_score
  /\ genResults[2].combined_score = genResults[3].combined_score
  /\ genResults[2].word # genResults[3].word
  /\ DisplayWord(dictionary[3]) = genResults[1].word

\* C7: when all returned words have one length, the length axis counts as
\* 1 for each of them, likewise for the letter-value sum; when both are
\* equal every entry has combined_score 1000 and estimated_uncommonness 5.
C7_DegenerateRange ==
  genDone =>
    \A i \in DOMAIN genResults :
       LET oneLength == Cardinality(ResultLengths) = 1
           oneUncommonness == Cardinality(ResultUncommonnesses) = 1
           len == Len(genResults[i].word)
           unc == Uncommonness(genResults[i].word)
           minLen == Least(ResultLengths)
           maxLen == Greatest(ResultLengths)
           minUnc == Least(ResultUncommonnesses)
           maxUnc == Greatest(ResultUncommonnesses)
       IN /\ (oneLength /\ ~ oneUncommonness) =>
               \* 10 + 990 * (1 + (unc - min) / (max - min)) / 2
               IsRounded(genResults[i].combined_score,
                         20 * (maxUnc - minUnc)
                           + 990 * ((maxUnc - minUnc) + (unc - minUnc)),
                         2 * (maxUnc - minUnc))
          /\ (oneUncommonness /\ ~ oneLength) =>
               /\ genResults[i].estimated_uncommonness = 5
               /\ IsRounded(genResults[i].combined_score,
                            20 * (maxLen - minLen)
                              + 990 * ((maxLen - minLen) + (len - minLen)),
                            2 * (maxLen - minLen))
          /\ (oneLength /\ oneUncommonness) =>
               /\ genResults[i].combined_score = 1000
               /\ genResults[i].estimated_uncommonness = 5

\* two different words of the same length and letter-value sum
C7_Witness ==
  /\ genDone
  /\ Len(genResults) = 2
  /\ genResults[1].word # genResults[2].word
  /\ Cardinality(ResultLengths) = 1
  /\ Cardinality(ResultUncommonnesses) = 1
  /\ genResults[2].combined_score = 1000

\* ------------------------------------------------------- session: submit
\* a submit while the game is active of a buffer that is a word of the
\* level and was not found before
ValidNewSubmit ==
  /\ handleSubmit
  /\ ~ isGameOver
  /\ toLowerCase(currentInput) \in DOMAIN wordMap
  /\ \A i \in DOMAIN foundWords :
       foundWords[i].word # toLowerCase(currentInput)

\* C9: a submit in the active game whose lower-cased buffer is a word of the
\* level not found yet puts exactly one new entry (the lower-cased word, the
\* word's combined_score, the bonus) in front of the found list, raises the
\* score by exactly that word score plus that bonus, and sets lastWordLength
\* to the length of the word.
C9_ValidSubmit ==
  [][ValidNewSubmit =>
        LET lowerInput == toLowerCase(currentInput)
        IN /\ Len(foundWords') = Len(foundWords) + 1
           /\ SubSeq(foundWords', 2, Len(foundWords')) = foundWords
           /\ foundWords'[1].word = lowerInput
           /\ foundWords'[1].score = wordMap[lowerInput].combined_score
           /\ score' = score + wordMap[lowerInput].combined_score
                              + foundWords'[1].bonus.amount
           /\ lastWordLength' = Len(lowerInput)]_vars

\* a second word was found with a bonus, and the score is the sum of both
\* word scores and the bonus
C9_Witness ==
  /\ Len(foundWords) = 2
  /\ foundWords[1].bonus.amount > 0
  /\ foundWords[2].bonus.amount = 0
  /\ score = foundWords[1].score + foundWords[1].bonus.amount
               + foundWords[2].score
  /\ lastWordLength = Len(foundWords[1].word)

\* C10: from a fresh session (lastWordLength 0, counters 0) the first valid
\* submission makes streakCount 1 without a bonus; a valid submission of
\* the length of the last word, the k-th of its streak, makes streakCount k
\* and earns the streak bonus (k - 1) * 50; so when all k found words have
\* one length and streakCount is k, their bonuses are 0, 50, ..,
\* (k - 1) * 50 in the order found.
C10_StreakBonus ==
  [][ValidNewSubmit =>
        LET newWord == foundWords'[1]
            k == Len(foundWords')
        IN /\ (lastWordLength = 0 /\ streakCount = 0 /\ straightCount = 0)
                => /\ streakCount' = 1
                   /\ newWord.bonus = NoBonus
           /\ (lastWordLength = Len(newWord.word) /\ streakCount >= 1)
                => /\ streakCount' = streakCount + 1
                   /\ newWord.bonus = [type |-> "streak",
                                       amount |-> streakCount * 50,
                                       count |-> streakCount + 1]
           /\ (/\ streakCount' = k
               /\ \A i \in 1..k :
                    Len(foundWords'[i].word) = Len(newWord.word))
                => \A i \in 1..k :
                     foundWords'[i].bonus.amount = (k - i) * 50]_vars

\* three words of one length found in a row: bonuses 0, 50 and 100
C10_Witness ==
  /\ Len(foundWords) = 3
  /\ streakCount = 3
  /\ \A i \in 1..3 : Len(foundWords[i].word) = lastWordLength
  /\ foundWords[3].bonus = NoBonus
  /\ foundWords[2].bonus.amount = 50
  /\ foundWords[1].bonus = [type |-> "streak", amount |-> 100, count |-> 3]

\* C11: from a fresh session the first valid submission makes straightCount
\* 1 without a bonus; a valid submission one letter longer than the last
\* word, the k-th of its straight, makes straightCount k and earns the
\* straight bonus (k - 1) * 100; so when the k found words grow by one
\* letter each and straightCount is k, their bonuses are 0, 100, ..,
\* (k - 1) * 100 in the order found.
C11_StraightBonus ==
  [][ValidNewSubmit =>
        LET newWord == foundWords'[1]
            k == Len(foundWords')
        IN /\ (lastWordLength = 0 /\ streakCount = 0 /\ straightCount = 0)
                => /\ straightCount' = 1
                   /\ newWord.bonus = NoBonus
           /\ (Len(newWord.word) = lastWordLength + 1 /\ straightCount >= 1
                 /\ lastWordLength > 0)
                => /\ straightCount' = straightCount + 1
                   /\ streakCount' = 1
                   /\ newWord.bonus = [type |-> "straight",
                                       amount |-> straightCount * 100,
                                       count |-> straightCount + 1]
           /\ (/\ straightCount' = k
               /\ \A i \in 1..(k - 1) :
                    Len(foundWords'[i].word)
                      = Len(foundWords'[i + 1].word) + 1)
                => \A i \in 1..k :
                     foundWords'[i].bonus.amount = (k - i) * 100]_vars

\* words of 3, 4 and 5 letters found in a row: bonuses 0, 100 and 200
C11_Witness ==
  /\ Len(foundWords) = 3
  /\ straightCount = 3
  /\ Len(foundWords[3].word) = 3
  /\ Len(foundWords[2].word) = 4
  /\ Len(foundWords[1].word) = 5
  /\ foundWords[3].bonus = NoBonus
  /\ foundWords[2].bonus.amount = 100
  /\ foundWords[1].bonus = [type |-> "straight", amount |-> 200, count |-> 3]

\* C12: a valid new word whose length is neither lastWordLength nor
\* lastWordLength + 1 (a shorter word, a jump of two or more letters, or the
\* first word of the session) sets streakCount and straightCount to 1, not
\* 0, and earns no bonus.
C12_ResetToOne ==
  [][(/\ ValidNewSubmit
      /\ \/ lastWordLength = 0
         \/ /\ Len(foundWords'[1].word) # lastWordLength
            /\ Len(foundWords'[1].word) # lastWordLength + 1)
       => /\ streakCount' = 1
          /\ straightCount' = 1
          /\ foundWords'[1].bonus = NoBonus]_vars

\* a shorter word found right after a word that earned a bonus: both
\* counters are 1 and the word has no bonus
C12_Witness ==
  /\ Len(foundWords) >= 3
  /\ foundWords[2].bonus.amount > 0
  /\ Len(foundWords[1].word) < Len(foundWords[2].word)
  /\ foundWords[1].bonus = NoBonus
  /\ streakCount = 1
  /\ straightCount = 1

\* a submit while the game is active of a buffer that is neither a word
\* found before nor a word of the level
MissSubmit ==
  /\ handleSubmit
  /\ ~ isGameOver
  /\ toLowerCase(currentInput) \notin DOMAIN wordMap
  /\ \A i \in DOMAIN foundWords :
       foundWords[i].word # toLowerCase(currentInput)

\* a submit while the game is active of a word found before
FoundAgainSubmit ==
  /\ handleSubmit
  /\ ~ isGameOver
  /\ \E i \in DOMAIN foundWords :
       foundWords[i].word = toLowerCase(currentInput)

\* two submits in one closure of a buffer that is a word of the level and
\* was not found before
ValidNewSubmitTwice ==
  /\ handleSubmitQueued
  /\ toLowerCase(currentInput) \in DOMAIN wordMap
  /\ \A i \in DOMAIN foundWords :
       foundWords[i].word # toLowerCase(currentInput)

\* C13: a submit of a word not in the list leaves both counters 0 (and the
\* last length as it was); nothing but a valid new submit changes them
\* afterwards (the start of the next level sets them to 0 again); and the
\* valid new submit that finds them 0, made once or twice in one closure,
\* earns no bonus and sets both to 1, whatever the length of its word.
C13_NoBonusAfterMiss ==
  [][/\ MissSubmit => /\ streakCount' = 0
                      /\ straightCount' = 0
                      /\ lastWordLength' = lastWordLength
     /\ (~ MissSubmit /\ ~ ValidNewSubmit /\ ~ ValidNewSubmitTwice)
          => \/ UNCHANGED <<streakCount, straightCount, lastWordLength>>
             \/ /\ NextLevelStep
                /\ streakCount' = 0
                /\ straightCount' = 0
     /\ ((ValidNewSubmit \/ ValidNewSubmitTwice)
           /\ streakCount = 0 /\ straightCount = 0)
          => /\ \A i \in 1..(Len(foundWords') - Len(foundWords)) :
                  foundWords'[i].bonus = NoBonus
             /\ streakCount' = 1
             /\ straightCount' = 1]_vars

\* a word was found that is as long as the word found before it, and it
\* has no bonus and the counters are 1: a miss came between the two
C13_Witness ==
  /\ submitted = "valid"
  /\ Len(foundWords) >= 2
  /\ Len(foundWords[1].word) = Len(foundWords[2].word)
  /\ foundWords[1].bonus = NoBonus
  /\ streakCount = 1
  /\ straightCount = 1

\* C14: every entry of the found list has one kind of bonus: a streak bonus
\* of (count - 1) * 50 with count >= 2, a straight bonus of
\* (count - 1) * 100 with count >= 2, or the record of no bonus with
\* amount 0.
C14_OneBonusType ==
  \A i \in DOMAIN foundWords :
     LET bonus == foundWords[i].bonus
     IN \/ /\ bonus.type = "streak"
           /\ bonus.count >= 2
           /\ bonus.amount = (bonus.count - 1) * 50
        \/ /\ bonus.type = "straight"
           /\ bonus.count >= 2
           /\ bonus.amount = (bonus.count - 1) * 100
        \/ bonus = NoBonus

\* a straight bonus was earned right after a streak bonus: the word found
\* last is one letter longer than the two of equal length before it
C14_Witness ==
  /\ Len(foundWords) >= 3
  /\ foundWords[1].bonus.type = "straight"
  /\ foundWords[2].bonus.type = "streak"
  /\ foundWords[1].bonus.amount = 100

\* C15: a submit of a word that is in the found list leaves the score, the
\* found list, lastWordLength, streakCount and straightCount (and the
\* level, the remaining time and the game-over flag) as they are and sets
\* the invalid flag.
C15_FoundAgainIdempotent ==
  [][FoundAgainSubmit =>
       /\ UNCHANGED <<score, foundWords, lastWordLength, streakCount,
                      straightCount>>
       /\ UNCHANGED <<levelVars, timeLeft, isGameOver, isLoading>>
       /\ isInvalidWord' = TRUE]_vars

\* a word found before was submitted during a streak
C15_Witness ==
  /\ submitted = "found"
  /\ isInvalidWord
  /\ streakCount >= 2
  /\ score > 0

\* C16: a submit in the active game of a buffer that is neither found
\* before nor a word of the level sets streakCount and straightCount to 0
\* and the invalid flag, leaves score, found list and remaining time as
\* they are, and does not end the game.
C16_MissResets ==
  [][MissSubmit =>
       /\ streakCount' = 0
       /\ straightCount' = 0
       /\ isInvalidWord' = TRUE
       /\ UNCHANGED <<score, foundWords, timeLeft>>
       /\ ~ isGameOver'
       /\ ~ isLoading']_vars

\* a miss after words were found: the score stays and the counters are 0
C16_Witness ==
  /\ submitted = "invalid"
  /\ isInvalidWord
  /\ score > 0
  /\ lastWordLength > 0
  /\ streakCount = 0
  /\ straightCount = 0

\* C17 (as claimed): after every call of handleSubmit, whatever the state
\* of the session, the input buffer is empty.
C17_AlwaysCleared == submitted # "none" => currentInput = <<>>

\* C17 (amended): after every call of handleSubmit made while the game is
\* not over, whatever its outcome (valid, found before, not in the list),
\* the input buffer is empty.
C17_ClearedUnlessOver ==
  submitted \in {"valid", "queued", "found", "invalid", "empty"}
    => currentInput = <<>>

\* the first input of the session was rejected and the buffer is empty
C17_Witness ==
  /\ submitted = "invalid"
  /\ foundWords = <<>>
  /\ currentInput = <<>>
  /\ ~ isGameOver

\* ---------------------------------------------------- session: keyboard
\* C18: in every state with a loaded level, the input buffer holds every
\* character at most as often as the seed word does (so a key press that
\* would exceed the budget leaves the buffer as it is), whatever key
\* presses, deletes and submits came before and however they fell between
\* the renders.
C18_InputWithinBudget ==
  ~ isLoading =>
    \A c \in Range(currentInput) :
       Count(c, currentInput) <= Count(c, toLowerCase(seedWord))

\* C19: delete removes exactly the last character of the input buffer and
\* leaves an empty buffer empty; it changes neither score, found list,
\* counters nor remaining time; and a key press that changes the buffer
\* appends one character at its end, so that the delete after it restores
\* the buffer.
C19_DeleteLast ==
  [][/\ onDelete =>
          /\ currentInput = <<>> => currentInput' = <<>>
          /\ currentInput # <<>> =>
                currentInput =
                  Append(currentInput', currentInput[Len(currentInput)])
          /\ UNCHANGED <<progressVars, timeLeft>>
     /\ \A letter \in Keys :
          (handleKeyPress(letter) /\ currentInput' # currentInput)
            => /\ Len(currentInput') = Len(currentInput) + 1
               /\ SubSeq(currentInput', 1, Len(currentInput)) = currentInput
               /\ currentInput'[Len(currentInput')] = letter]_vars

\* two letters are in the buffer, for delete to take the last one, in a
\* session with a word found and a running clock
C19_Witness ==
  /\ KeyboardShown
  /\ Len(currentInput) = 2
  /\ currentInput[1] # currentInput[2]
  /\ foundWords # <<>>
  /\ timerId

\* ------------------------------------------------------- session: timer
\* C20: the remaining time is never negative, in every state of a session
\* and for every order of interval ticks, runs of the timer effect and
\* player actions (and no step of the active game increases it).
C20_TimeNeverNegative == timeLeft >= 0

\* no step of the active game increases the remaining time
TimeNeverIncreases ==
  [][(~ isLoading /\ ~ isGameOver) => timeLeft' <= timeLeft]_vars

\* C21: when the remaining time has reached 0 in the active game, the
\* timer effect sets no interval any more but ends the game (and its run
\* is not put off for ever); once the game is over the interval is
\* cleared and no step decrements the remaining time, until
\* handleNextLevel starts the next level.
C21_ExpiresAndStops ==
  /\ [][/\ (Active /\ timeLeft <= 0) => ~ (~ timerId /\ timerId')
        /\ (Active /\ timeLeft <= 0 /\ ~ Active') => isGameOver'
        /\ isGameOver' => ~ timerId'
        /\ isGameOver => timeLeft' = timeLeft \/ NextLevelStep]_vars
  /\ (Active /\ timeLeft <= 0) ~> isGameOver

\* the time has run out in a running level, the game is over and a submit
\* has been tried since
C21_Witness ==
  /\ isGameOver
  /\ timeLeft = 0
  /\ seedWord # <<>>
  /\ submitted = "over"

\* C22: finding every word of the level does not end it: no submit changes
\* isGameOver or isLoading, with every word found and time left the game
\* is not over, and the active game is left only to game over with no time
\* left or to the load that follows a next level request.
C22_NoEarlyCompletion ==
  /\ [](AllFound /\ timeLeft > 0 => ~ isGameOver)
  /\ [][/\ submitted' # "none" => UNCHANGED <<isGameOver, isLoading>>
        /\ (~ isGameOver /\ isGameOver') => timeLeft <= 0
        /\ (Active /\ ~ Active')
             => \/ isGameOver' /\ timeLeft <= 0
                \/ isLoading' /\ LoadDue]_vars

\* the last of the four words of a level has just been found with time
\* left, and the level goes on
C22_Witness ==
  /\ AllFound
  /\ Len(foundWords) = 4
  /\ submitted = "valid"
  /\ timeLeft > 0
  /\ Active

\* C23: once the game is over no step (no submit, no tick of the timer)
\* changes the score, the found words, the streak and straight counters,
\* the last word length or the remaining time, but the step of
\* handleNextLevel that starts the next level.
C23_GameOverFrozen ==
  [][isGameOver => \/ UNCHANGED <<progressVars, timeLeft>>
                   \/ NextLevelStep]_vars

\* a submit has been made with letters in the buffer after the time ran
\* out on a session with two words found
C23_Witness ==
  /\ isGameOver
  /\ submitted = "over"
  /\ Len(foundWords) = 2
  /\ streakCount > 0
  /\ currentInput # <<>>

\* the level file of the current level is still to come: its load is due
\* or in flight
AwaitingLevel ==
  \/ LoadDue
  \/ \E i \in DOMAIN loads : loads[i].level = currentLevel

\* C24: while the level file of the current level has not been fetched and
\* indexed (the steps between handleNextLevel and the start of the load
\* included) no letter is accepted into the input buffer and no submit is
\* evaluated: the buffer gets no longer, and score, found words and
\* counters stay as they are.
C24_NoInputWhileLoading ==
  [][(AwaitingLevel /\ ~ isGameOver)
       => /\ Len(currentInput') <= Len(currentInput)
          /\ submitted' = "none"
          /\ UNCHANGED progressVars]_vars

\* the level data a load applies
levelData == <<levelWords, seedWord, wordMap, seedLetterMap>>

\* C25: of the loads in flight only the one started last applies its
\* results: a load that ends while a load started after it is in flight
\* leaves the level word list, seed word, word map and seed letter map as
\* they are
C25_LastLoadWins ==
  [][(Len(loads') < Len(loads) /\ levelData' # levelData)
       => loads' = SubSeq(loads, 1, Len(loads) - 1)]_vars
\* C26: until a load has succeeded the game stays in the loading state:
\* while no level word list has been set, isLoading holds, no interval is
\* set, the time left is not counted down and no input has been accepted
C26_FailedLoadKeepsLoading ==
  levelWords.isNull
    => /\ isLoading
       /\ ~ timerId
       /\ currentInput = <<>>
       /\ submitted = "none"
\* C27: a load whose level data are missing or have a words_list that is
\* not an array fails as a whole: the step in which it ends leaves the
\* level word list, the word map, the seed word and the seed letter map as
\* they were before the load
C27_MalformedLoadKeepsData ==
  [][(Len(loads') < Len(loads) /\ loadError' = "TypeError")
       => levelData' = levelData]_vars

\* a load of the file of level 2 ended with the format error while the data
\* of a file of level 1 were in use: they still are
C27_Witness ==
  /\ loadError = "TypeError"
  /\ loads = <<>>
  /\ currentLevel = 2
  /\ selectedSeedWordFile = "dda"
  /\ ~ levelWords.isNull
  /\ seedWord = LevelFiles["dad"].seed_word
  /\ seedLetterMap = getCharMap(toLowerCase(LevelFiles["dad"].seed_word))
\* C28: best score wins. A call of updateLevelProgress for a level with a
\* score lower than or equal to the score recorded for that level leaves
\* the level's stored score, wordsFound and totalWords and the stored
\* totalScore as they are; a call with a higher score stores that score and
\* raises totalScore by exactly the difference
C28_BestScoreWins ==
  [][(<<updateCall, progress>>' # <<updateCall, progress>>)
       => LET level == updateCall'.level
              recorded == level \in DOMAIN progress.completedLevels
              recordedScore ==
                IF recorded THEN progress.completedLevels[level].score ELSE 0
          IN /\ (recorded /\ updateCall'.score <= recordedScore)
                  => /\ progress'.completedLevels[level] =
                          progress.completedLevels[level]
                     /\ progress'.totalScore = progress.totalScore
             /\ updateCall'.score > recordedScore
                  => /\ progress'.completedLevels[level].score =
                          updateCall'.score
                     /\ progress'.totalScore =
                          progress.totalScore
                            + (updateCall'.score - recordedScore)]_vars

\* the last call had a lower score and another number of words found than
\* the record of its level, and the record has the higher score still
C28_Witness ==
  /\ updateCall # NoCall
  /\ updateCall.level \in DOMAIN progress.completedLevels
  /\ updateCall.score < progress.completedLevels[updateCall.level].score
  /\ updateCall.wordsFound #
       progress.completedLevels[updateCall.level].wordsFound
  /\ progress.totalScore = SumScores(progress.completedLevels)
\* C29: getStarRating gives 0 stars to a score below 1000, 1 star from 1000
\* to 9999, 2 stars from 10000 to 19999 and 3 stars from 20000 on; the
\* result is in 0..3, and of two calls the one with the higher score never
\* gets fewer stars
C29_StarRating ==
  /\ [](/\ stars \in 0..3
        /\ starScore < 1000 => stars = 0
        /\ (starScore >= 1000 /\ starScore <= 9999) => stars = 1
        /\ (starScore >= 10000 /\ starScore <= 19999) => stars = 2
        /\ starScore >= 20000 => stars = 3)
  /\ [][/\ starScore' >= starScore => stars' >= stars
        /\ starScore' <= starScore => stars' <= stars]_vars

\* getStarRating was called with a score on the threshold of the first
\* star
C29_Witness ==
  /\ starScore = STAR_THRESHOLDS.ONE_STAR
  /\ stars = 1
\* C30: a level that is entered fresh is loaded from one of its candidate
\* files: the call of loadData that the load data effect makes after the
\* level has changed either leaves the choice to loadData, which draws a
\* candidate of the level, or names a file that is a candidate of the level
C30_LoadsCandidateFile ==
  [][Len(loads') > Len(loads)
       => LET load == loads'[Len(loads')]
          IN \/ load.savedSeedWordFile = ""
             \/ load.savedSeedWordFile
                  \in Range(levelMapping[load.level].seed_words)]_vars
\* C31: within one session the found list never holds two entries with the
\* same word, also after two submit events for one buffer that both run
\* before the state update of the first is visible to the second; and
\* until the session is reset by the next level, a step only puts new
\* entries in front of the list and leaves the entries it has as they are
C31_FoundOnce ==
  /\ [](\A i, j \in DOMAIN foundWords :
          foundWords[i].word = foundWords[j].word => i = j)
  /\ [][\/ NextLevelStep
        \/ /\ Len(foundWords') >= Len(foundWords)
           /\ SubSeq(foundWords', Len(foundWords') - Len(foundWords) + 1,
                     Len(foundWords')) = foundWords]_vars
\* no tick while one of the flags that the timer effect tests is set
NoTickWhileFlagged ==
  [][(isLoading \/ isResumingGame) => timeLeft' >= timeLeft]_vars

\* C32: while the session is loading, that is while the level file of the
\* current level is not available yet, or is in resuming mode, no tick
\* decrements the remaining time, so that the session becomes active with
\* the time limit of a fresh level or the remaining time of the snapshot
C32_NoTickBeforeActive ==
  [][(isLoading \/ isResumingGame \/ AwaitingLevel \/ levelWords.isNull)
       => timeLeft' >= timeLeft]_vars
\* C33: while the game is active the actions of the player do not postpone
\* the countdown: a step that presses a letter, deletes or submits leaves
\* the pending interval as it is, it neither clears it nor sets a new one
C33_PlayerKeepsInterval ==
  [][(Active /\ timerId
        /\ (currentInput' # currentInput \/ submitted' # "none"))
       => ~ TimerRearmed]_vars
\* the load data effect is due in a state in which it is not followed
LoadCutOff ==
  /\ LoadDue
  /\ \/ Len(foundWords) > MaxStaleFound
     \/ currentLevel = MaxLevel /\ progress.totalScore > MaxStoredScore

NextLevelResets ==
  [][NextLevelStep
       => /\ lastWordLength' = 0 /\ streakCount' = 0 /\ straightCount' = 0
          /\ currentInput' = <<>>
          /\ ~ levelWords.isNull
               => /\ currentLevel \in DOMAIN progress'.completedLevels
                  /\ progress'.completedLevels[currentLevel].score >= score]_vars

\* C36: the level that a next-level action has entered starts as a clean
\* session: in the step in which its load ends and the game is shown (no
\* snapshot being resumed) the found list is empty, the score is 0, the
\* remaining time is the time limit, the counters are 0 and the input
\* buffer is empty
C36_CleanNextLevel ==
  [][(isLoading /\ ~ isLoading' /\ ~ isResumingGame')
       => /\ foundWords' = <<>>
          /\ score' = 0
          /\ timeLeft' = TIME_LIMIT
          /\ lastWordLength' = 0
          /\ streakCount' = 0
          /\ straightCount' = 0
          /\ currentInput' = <<>>]_vars
\* the sum of score + bonus.amount over the entries of a found list
RECURSIVE SumFound(_)
SumFound(found) ==
  IF found = <<>> THEN 0
  ELSE found[1].score + found[1].bonus.amount + SumFound(Tail(found))

\* C37: in a session that started fresh (no snapshot resumed) the score is
\* the sum over the entries of the found list of score + bonus.amount;
\* hence it is at least 0, and no step decreases it but the reset of
\* handleNextLevel that starts the session of the next level
C37_ScoreIsSumOfFound ==
  /\ [](savedSeedWordFileRef = ""
          => /\ score = SumFound(foundWords)
             /\ score >= 0)
  /\ [][savedSeedWordFileRef = ""
          => score' >= score \/ NextLevelStep]_vars

\* a fresh session with two words found, the second with a bonus
C37_Witness ==
  /\ savedSeedWordFileRef = ""
  /\ Len(foundWords) = 2
  /\ foundWords[1].word # foundWords[2].word
  /\ foundWords[1].bonus.amount > 0
  /\ score = SumFound(foundWords)
  /\ score > foundWords[1].score + foundWords[2].score
\* C38: in a session that started fresh streakCount and straightCount are
\* at least 0 and never both 2 or more; after a valid submission at least
\* one of them is 1, and after a miss both are 0
C38_CountersExclusive ==
  /\ [](savedSeedWordFileRef = ""
          => /\ streakCount >= 0 /\ straightCount >= 0
             /\ ~ (streakCount >= 2 /\ straightCount >= 2))
  /\ [][savedSeedWordFileRef = ""
          => /\ submitted' \in {"valid", "queued"}
                  => streakCount' = 1 \/ straightCount' = 1
             /\ submitted' \in {"invalid", "empty"}
                  => streakCount' = 0 /\ straightCount' = 0]_vars

\* a fresh session in which the word just found continued a straight that
\* had followed a streak: the straight count is 2, the streak count is
\* back at 1
C38_Witness ==
  /\ savedSeedWordFileRef = ""
  /\ submitted = "valid"
  /\ straightCount = 2
  /\ streakCount = 1
  /\ Len(foundWords) >= 3
  /\ foundWords[2].bonus.type = "streak"
\* C39: after any sequence of calls of updateLevelProgress, from an empty
\* store or from a store whose total is the sum of its scores, the stored
\* totalScore is the sum of the stored scores of the completed levels
C39_TotalIsSumOfLevels ==
  progress.totalScore = SumScores(progress.completedLevels)

\* the last call has replaced the score of a level by a better one, and
\* all levels are completed with a score
C39_Witness ==
  /\ updateCall # NoCall
  /\ DOMAIN progress.completedLevels = Levels
  /\ \A l \in Levels : progress.completedLevels[l].score > 0
  /\ progress.completedLevels[updateCall.level].score = updateCall.score
  /\ progress.completedLevels[updateCall.level].wordsFound = 3
  /\ progress.totalScore > updateCall.score
\* C40: a submit with an empty input buffer while the game is active is
\* handled as a word that is not in the list: it sets streakCount and
\* straightCount to 0 and the invalid flag, and changes neither the score
\* nor the found list
C40_EmptySubmitIsMiss ==
  [][(handleSubmit \/ handleSubmitQueued) /\ Active /\ currentInput = <<>>
       => /\ submitted' = "empty"
          /\ streakCount' = 0
          /\ straightCount' = 0
          /\ isInvalidWord' = TRUE
          /\ UNCHANGED <<score, foundWords, lastWordLength>>
          /\ currentInput' = <<>>]_vars

\* an empty input was submitted after a word was found: the invalid flag
\* is set, the counters are 0 and the word and its score are kept
C40_Witness ==
  /\ submitted = "empty"
  /\ Active
  /\ isInvalidWord
  /\ Len(foundWords) >= 1
  /\ score > 0
  /\ lastWordLength > 0
  /\ streakCount = 0
  /\ straightCount = 0
====
